---- MODULE Spec2Model ----
(***************************************************************************)
(* Model of scripts/bigquery.py: the revision-diff transpilation pipeline. *)
(* Strings are Python strings, a path is the tuple of its parts, a Python  *)
(* value that crosses a function boundary carries its type, and an         *)
(* exception is the name of its class.                                     *)
(***************************************************************************)
EXTENDS Integers, Sequences, FiniteSets, TLC

(***************************************************************************)
(* Python string primitives used by the program.                           *)
(***************************************************************************)

Char(s, i) == SubSeq(s, i, i)

IsSpace(c) == c \in {" ", "\n", "\t"}

\* str.split(sep) with a one-character separator: "" gives [""]
Split(s, sep) ==
  LET RECURSIVE F(_, _)
      F(i, start) ==
        IF i > Len(s) THEN << SubSeq(s, start, Len(s)) >>
        ELSE IF Char(s, i) = sep
             THEN << SubSeq(s, start, i - 1) >> \o F(i + 1, i + 1)
             ELSE F(i + 1, start)
  IN F(1, 1)

\* str.split() without argument: runs of whitespace separate, no empty item
SplitWS(s) ==
  LET RECURSIVE F(_, _)
      F(i, start) ==
        IF i > Len(s)
        THEN IF start <= Len(s) THEN << SubSeq(s, start, Len(s)) >> ELSE << >>
        ELSE IF IsSpace(Char(s, i))
             THEN (IF start < i THEN << SubSeq(s, start, i - 1) >> ELSE << >>)
                  \o F(i + 1, i + 1)
             ELSE F(i + 1, start)
  IN F(1, 1)

\* str.strip()
Strip(s) ==
  LET RECURSIVE L(_)
      L(i) == IF i <= Len(s) /\ IsSpace(Char(s, i)) THEN L(i + 1) ELSE i
      RECURSIVE R(_)
      R(j) == IF j >= 1 /\ IsSpace(Char(s, j)) THEN R(j - 1) ELSE j
  IN IF L(1) > Len(s) THEN "" ELSE SubSeq(s, L(1), R(Len(s)))

Digits == "0123456789"

IsDigit(c) == \E i \in 1..Len(Digits) : Char(Digits, i) = c

DigitVal(c) == (CHOOSE i \in 1..Len(Digits) : Char(Digits, i) = c) - 1

\* int(text): decimal digits with an optional sign, ValueError otherwise
ParseInt(text) ==
  LET signed == Len(text) > 0 /\ Char(text, 1) \in {"-", "+"}
      body   == IF signed THEN SubSeq(text, 2, Len(text)) ELSE text
      RECURSIVE V(_, _)
      V(i, acc) == IF i > Len(body) THEN acc
                   ELSE V(i + 1, 10 * acc + DigitVal(Char(body, i)))
  IN IF Len(body) = 0 \/ \E i \in 1..Len(body) : ~IsDigit(Char(body, i))
     THEN [ok |-> FALSE, val |-> 0, exc |-> "ValueError"]
     ELSE [ok |-> TRUE,
           val |-> IF signed /\ Char(text, 1) = "-" THEN 0 - V(1, 0) ELSE V(1, 0),
           exc |-> ""]

\* pathlib: Path / name
PathJoin(dir, name) == IF name = "" THEN dir ELSE dir \o "/" \o name

(***************************************************************************)
(* Bounds and the inputs drawn from them.                                  *)
(***************************************************************************)

\* longest stash list the repository starts with
MaxStash == 2

\* longest list of source paths handed to transpile_schemas directly
MaxPaths == 2

short_rev_len == 7

Branches == {"master", "topic"}

\* revision hashes: the first two share their short revision
Revs == {"aaaaaaa1", "aaaaaaa2", "bbbbbbb1"}

\* references a caller passes as head_ref and base_ref
RefArgs == {"HEAD"} \cup Branches

\* the ways the external transpiler can end: exit 0 printing a JSON document,
\* exit 0 printing something else, non-zero exit
ToolModes == {"json", "garbage", "fail"}

WORKDIR == "/tmp/w"

OUTDIR == "integration"

TOOL_DOC == "[]"

(***************************************************************************)
(* The external commands: git on a repository                              *)
(*   [HEAD, dirty, stash, refs, tree]                                      *)
(* HEAD is a branch name, or a revision hash when detached; stash is the   *)
(* stash list, newest first; refs maps each branch to its revision; tree   *)
(* maps each revision to the files under schemas/.                         *)
(***************************************************************************)

Attached(r) == r.HEAD \in DOMAIN r.refs

CurrentRev(r) == IF Attached(r) THEN r.refs[r.HEAD] ELSE r.HEAD

KnownRef(r, ref) == ref = "HEAD" \/ ref \in DOMAIN r.refs \/ ref \in Revs

RevOf(r, ref) ==
  IF ref = "HEAD" THEN CurrentRev(r)
  ELSE IF ref \in DOMAIN r.refs THEN r.refs[ref] ELSE ref

\* git stash list: one line per entry
StashListOut(stash) ==
  LET RECURSIVE F(_)
      F(i) == IF i > Len(stash) THEN ""
              ELSE "stash@{" \o ToString(i - 1) \o "}: WIP\n" \o F(i + 1)
  IN F(1)

GitOk(r, out) == [ok |-> TRUE, out |-> out, repo |-> r]

GitErr(r) == [ok |-> FALSE, out |-> "", repo |-> r]

Git(args, r) ==
  IF args = <<"git", "diff">>
  THEN GitOk(r, IF r.dirty THEN "diff --git a/f b/f\n" ELSE "")
  ELSE IF args = <<"git", "stash", "list">>
  THEN GitOk(r, StashListOut(r.stash))
  ELSE IF args = <<"git", "stash">>
  THEN IF r.dirty
       THEN GitOk([r EXCEPT !.dirty = FALSE, !.stash = <<"run">> \o r.stash],
                  "Saved working directory and index state WIP\n")
       ELSE GitOk(r, "No local changes to save\n")
  ELSE IF args = <<"git", "stash", "apply">>
  THEN IF Len(r.stash) = 0 THEN GitErr(r)
       ELSE GitOk([r EXCEPT !.dirty = TRUE], "On branch\n")
  ELSE IF Len(args) >= 2 /\ SubSeq(args, 1, 2) = <<"git", "checkout">>
  THEN IF Len(args) = 2 THEN GitOk(r, "")
       ELSE IF ~KnownRef(r, args[3]) THEN GitErr(r)
       ELSE IF args[3] = "HEAD" THEN GitOk(r, "")
       ELSE GitOk([r EXCEPT !.HEAD = args[3]],
                  IF args[3] \in DOMAIN r.refs
                  THEN "Your branch is up to date\n" ELSE "")
  ELSE IF Len(args) >= 3 /\ SubSeq(args, 1, 3) = <<"git", "rev-parse", "--abbrev-ref">>
  THEN IF Len(args) = 3 THEN GitOk(r, "")
       ELSE IF ~KnownRef(r, args[4]) THEN GitErr(r)
       ELSE IF args[4] = "HEAD"
            THEN GitOk(r, (IF Attached(r) THEN r.HEAD ELSE "HEAD") \o "\n")
       ELSE IF args[4] \in DOMAIN r.refs THEN GitOk(r, args[4] \o "\n")
       ELSE GitOk(r, "\n")
  ELSE IF Len(args) >= 2 /\ SubSeq(args, 1, 2) = <<"git", "rev-parse">>
  THEN IF Len(args) = 2 THEN GitOk(r, "")
       ELSE IF ~KnownRef(r, args[3]) THEN GitErr(r)
       ELSE GitOk(r, RevOf(r, args[3]) \o "\n")
  ELSE GitErr(r)

\* jsonschema-transpiler <path> --normalize-case --resolve cast --type bigquery
Tool(args, mode) ==
  IF mode = "json" THEN [ok |-> TRUE, out |-> TOOL_DOC \o "\n"]
  ELSE IF mode = "garbage" THEN [ok |-> TRUE, out |-> "warning\n"]
  ELSE [ok |-> FALSE, out |-> ""]

(***************************************************************************)
(* run: the value returned is a str.  fail is the environment's choice to  *)
(* make the process exit non-zero.                                         *)
(***************************************************************************)

RunResult(g, r) ==
  IF g.ok
  THEN [ok |-> TRUE, type |-> "str", val |-> Strip(g.out), exc |-> "", repo |-> g.repo]
  ELSE [ok |-> FALSE, type |-> "str", val |-> "", exc |-> "CalledProcessError", repo |-> r]

\* run(command) with a command string
run(command, r, fail) ==
  LET args == SplitWS(command)
  IN RunResult(IF fail THEN GitErr(r) ELSE Git(args, r), r)

\* run(command) with an argument list, here always the transpiler's
run_list(args, r, mode) ==
  LET t == Tool(args, mode)
  IN RunResult([ok |-> t.ok, out |-> t.out, repo |-> r], r)

\* the attributes the program reads, by the type of the value
Attrs(type) ==
  IF type = "Path" THEN {"glob", "parts", "open", "is_dir", "mkdir"}
  ELSE IF type = "CompletedProcess" THEN {"stdout", "returncode"}
  ELSE {"split", "strip"}

\* a parsed JSON document is a list of n fields; NoDoc stands where there is none
NoDoc == [kind |-> "none", n |-> 0]

\* json.loads: the documents of the model are "[]" and "[{}]"
\* (white space around and inside a document is skipped)
json_loads(text) ==
  IF Strip(text) = "[]" THEN [ok |-> TRUE, val |-> [kind |-> "list", n |-> 0], exc |-> ""]
  ELSE IF Strip(text) \in {"[{}]", "[\n  {}\n]"}
  THEN [ok |-> TRUE, val |-> [kind |-> "list", n |-> 1], exc |-> ""]
  ELSE [ok |-> FALSE, val |-> NoDoc, exc |-> "JSONDecodeError"]

\* json.dump(doc, fp, indent=2)
json_dump(doc) == IF doc.n = 0 THEN "[]" ELSE "[\n  {}\n]"

\* str(path)
PathStr(parts) ==
  LET RECURSIVE F(_)
      F(i) == IF i > Len(parts) THEN ""
              ELSE IF i = 1 THEN parts[1] \o F(2) ELSE "/" \o parts[i] \o F(i + 1)
  IN F(1)

transpile(schema_path, r, mode) ==
  LET res == run_list(<<"jsonschema-transpiler", PathStr(schema_path),
                        "--normalize-case", "--resolve", "cast",
                        "--type", "bigquery">>, r, mode)
  IN IF ~res.ok THEN [ok |-> FALSE, val |-> NoDoc, exc |-> res.exc]
     ELSE IF "stdout" \notin Attrs(res.type)
          THEN [ok |-> FALSE, val |-> NoDoc, exc |-> "AttributeError"]
          ELSE json_loads(res.val)

(***************************************************************************)
(* The file system: dirs is the set of directories, files the set of       *)
(* files [dir, name, content, src]; src, the source path a file was opened *)
(* for, is bookkeeping and no part of the file.                            *)
(***************************************************************************)

EndsWith(s, suffix) ==
  Len(s) >= Len(suffix) /\ SubSeq(s, Len(s) - Len(suffix) + 1, Len(s)) = suffix

\* path.parts[-3:]
Last3(parts) == IF Len(parts) <= 3 THEN parts ELSE SubSeq(parts, Len(parts) - 2, Len(parts))

\* out.open("w"): creates the file, or truncates the one of that name
OpenW(fs, dir, name, src) ==
  {f \in fs : ~(f.dir = dir /\ f.name = name)}
    \cup {[dir |-> dir, name |-> name, content |-> "", src |-> src]}

\* fp.write(text)
Write(fs, dir, name, text) ==
  {IF f.dir = dir /\ f.name = name THEN [f EXCEPT !.content = f.content \o text] ELSE f
     : f \in fs}

\* the namespace test with the sentinel misspelt
IsReserved_misspelt(namespace) == namespace = "schema"

\* the namespace test of the loop
IsReserved(namespace) == namespace = "schemas"

\* the output file name of the loop
OutName(namespace, doctype, version) ==
  namespace \o "." \o doctype \o "." \o ToString(version) \o ".bq"

\* one iteration of the loop of transpile_schemas on path: the files after it
\* and the exception it raised ("" when it went on to the next path)
transpile_schemas_iter(output_path, path, fs, r, mode) ==
  IF Len(path) < 3 THEN [files |-> fs, exc |-> "ValueError"]
  ELSE
    LET namespace == Last3(path)[1]
        doctype   == Last3(path)[2]
        filename  == Last3(path)[3]
        segs      == Split(filename, ".")
    IN IF Len(segs) < 3 THEN [files |-> fs, exc |-> "IndexError"]
       ELSE LET version == ParseInt(segs[Len(segs) - 2])
            IN IF ~version.ok THEN [files |-> fs, exc |-> version.exc]
               ELSE IF IsReserved(namespace) THEN [files |-> fs, exc |-> ""]
               ELSE LET out    == OutName(namespace, doctype, version.val)
                        opened == OpenW(fs, output_path, out, path)
                        doc    == transpile(path, r, mode)
                    IN IF ~doc.ok THEN [files |-> opened, exc |-> doc.exc]
                       ELSE [files |-> Write(Write(opened, output_path, out,
                                                   json_dump(doc.val)),
                                             output_path, out, "\n"),
                             exc |-> ""]

transpile_schemas(output_path, schema_paths, ds, fs, r, mode) ==
  LET RECURSIVE F(_, _)
      F(i, cur) ==
        IF i > Len(schema_paths) THEN [files |-> cur, exc |-> ""]
        ELSE LET it == transpile_schemas_iter(output_path, schema_paths[i], cur, r, mode)
             IN IF it.exc # "" THEN it ELSE F(i + 1, it.files)
  IN IF output_path \notin ds THEN [files |-> fs, exc |-> "AssertionError"]
     ELSE F(1, fs)

\* (ROOT / "schemas").glob("**/*.schema.json") on the checked-out revision
GlobSchemas(r) ==
  SelectSeq(r.tree[CurrentRev(r)], LAMBDA p : EndsWith(p[Len(p)], ".schema.json"))

\* load_schemas with glob("**/*.bq"), which also descends into directories
load_schemas_recursive(input_path, fs) ==
  IF "glob" \notin Attrs(input_path.type)
  THEN [ok |-> FALSE, val |-> {}, exc |-> "AttributeError"]
  ELSE LET paths == {f \in fs : /\ EndsWith(f.name, ".bq")
                                /\ \/ f.dir = input_path.val
                                   \/ /\ Len(f.dir) > Len(input_path.val)
                                      /\ SubSeq(f.dir, 1, Len(input_path.val) + 1)
                                           = input_path.val \o "/"}
       IN IF Cardinality(paths) = 0
          THEN [ok |-> FALSE, val |-> {}, exc |-> "AssertionError"]
          ELSE IF \E f \in paths : ~json_loads(f.content).ok
          THEN [ok |-> FALSE, val |-> {}, exc |-> "JSONDecodeError"]
          ELSE [ok |-> TRUE,
                val |-> {[key |-> SubSeq(f.name, 1, Len(f.name) - 3),
                          doc |-> json_loads(f.content).val] : f \in paths},
                exc |-> ""]

\* load_schemas(input_path); input_path is a Python value [type, val]
load_schemas(input_path, fs) ==
  IF "glob" \notin Attrs(input_path.type)
  THEN [ok |-> FALSE, val |-> {}, exc |-> "AttributeError"]
  ELSE LET paths == {f \in fs : f.dir = input_path.val /\ EndsWith(f.name, ".bq")}
       IN IF Cardinality(paths) = 0
          THEN [ok |-> FALSE, val |-> {}, exc |-> "AssertionError"]
          ELSE IF \E f \in paths : ~json_loads(f.content).ok
          THEN [ok |-> FALSE, val |-> {}, exc |-> "JSONDecodeError"]
          ELSE [ok |-> TRUE,
                val |-> {[key |-> SubSeq(f.name, 1, Len(f.name) - 3),
                          doc |-> json_loads(f.content).val] : f \in paths},
                exc |-> ""]

(***************************************************************************)
(* The functions over git.                                                 *)
(***************************************************************************)

git_stash_size(r, fail) ==
  LET res == run("git stash list", r, fail)
  IN [ok |-> res.ok, val |-> IF res.ok THEN Len(Split(res.val, "\n")) ELSE 0,
      exc |-> res.exc, repo |-> res.repo]

\* resolve_ref running the command of line 116 in place of its own
resolve_ref_checkout(ref, r, fail) == run("git checkout " \o ref, r, fail)

resolve_ref(ref, r, fail) == run("git rev-parse --abbrev-ref " \o ref, r, fail)

(***************************************************************************)
(* State.                                                                  *)
(***************************************************************************)

VARIABLES
  repo,     \* the git repository
  dirs,     \* directories of the file system
  files,    \* files of the file system
  pc,       \* position of the run of checkout_transpile_schemas
  args,     \* its arguments head_ref, base_ref, outdir
  loc,      \* its local variables
  fr,       \* the frame of the running _checkout_transpile_schemas call
  exc,      \* the exception in flight, "" when none; at "failed", the one raised
  log,      \* the commands and calls executed so far, with their outcome
  repo0,    \* the repository as it was when the run began
  fn,       \* a direct call of one function: its name and arguments
  fn_ret    \* and what it returned or raised

vars == <<repo, dirs, files, pc, args, loc, fr, exc, log, repo0, fn, fn_ret>>

None == [type |-> "NoneType", val |-> ""]

NoFrame == [which |-> "", ref |-> "", original_ref |-> "", rev |-> "",
            rev_path |-> "", pending |-> ""]

NoCall == [name |-> "", paths |-> << >>, dir |-> "", mode |-> "", ref |-> "", fs |-> {}]

\* val is the document transpile returned, map the mapping load_schemas
\* returned, str the string resolve_ref returned, again what resolve_ref
\* gave when called on that string
NoRet == [returned |-> FALSE, exc |-> "", val |-> NoDoc, map |-> {}, str |-> "",
          again |-> [ok |-> FALSE, val |-> ""]]

\* source paths of the repository's revisions
P_ok == <<"schemas", "telemetry", "main", "main.4.schema.json">>

P_ok2 == <<"schemas", "telemetry", "core", "core.10.schema.json">>

P_pioneer == <<"schemas", "pioneer-study", "study.1.schema.json">>

P_other == <<"schemas", "telemetry", "main", "README.md">>

RefMaps ==
  { [master |-> "aaaaaaa1", topic |-> "bbbbbbb1"],
    [master |-> "aaaaaaa1", topic |-> "aaaaaaa2"],
    [master |-> "aaaaaaa1", topic |-> "aaaaaaa1"] }

TreeMaps ==
  { [rev \in Revs |-> <<P_other, P_pioneer, P_ok, P_ok2>>],
    [rev \in Revs |-> IF rev = "aaaaaaa1" THEN <<P_ok>> ELSE <<P_pioneer>>],
    [rev \in Revs |-> << >>] }

\* the revision a run may start detached on
DetachedStarts == {"bbbbbbb1"}

StashLists == UNION {[1..n -> {"old"}] : n \in 0..MaxStash}

Repos ==
  { [HEAD |-> h, dirty |-> d, stash |-> s, refs |-> rf, tree |-> tr] :
      h \in Branches \cup DetachedStarts, d \in BOOLEAN, s \in StashLists,
      rf \in RefMaps, tr \in TreeMaps }

Init ==
  /\ repo \in Repos
  /\ repo0 = repo
  /\ dirs = {OUTDIR}
  /\ files = {[dir |-> OUTDIR, name |-> "old.bq", content |-> "[]\n", src |-> << >>]}
  /\ pc = "resolve_head"
  /\ args \in {[head_ref |-> h, base_ref |-> b, outdir |-> OUTDIR] : h \in RefArgs, b \in RefArgs}
  /\ loc = [resolved_head_ref |-> "", resolved_base_ref |-> "", workdir |-> "",
            before_stash_size |-> 0, should_apply_stash |-> FALSE,
            head_rev_path |-> None, base_rev_path |-> None]
  /\ fr = NoFrame
  /\ exc = ""
  /\ log = << >>
  /\ fn = NoCall
  /\ fn_ret = NoRet

\* a log entry: what was executed, whether it succeeded, in which call, and
\* the revision checked out after it
Event(cmd, ok, env, r) ==
  [cmd |-> cmd, ok |-> ok, env |-> env, step |-> pc, which |-> fr.which,
   rev |-> CurrentRev(r)]

\* the entry of a git command run through run(): env tells whether the
\* process exited with status zero
GitEvent(cmd, res) == Event(cmd, res.ok, IF res.ok THEN "ok" ELSE "fail", res.repo)


(***************************************************************************)
(* checkout_transpile_schemas, one action per statement that runs an       *)
(* external command or changes the file system.  An exception raised       *)
(* before the try statement ends the run at once ("failed"); one raised    *)
(* inside it goes through the finally block first.                         *)
(***************************************************************************)

\* line 134: resolved_head_ref = resolve_ref(head_ref)
ResolveHead ==
  /\ pc = "resolve_head"
  /\ \E fail \in BOOLEAN :
       LET cmd == "git rev-parse --abbrev-ref " \o args.head_ref
           res == resolve_ref(args.head_ref, repo, fail)
       IN /\ repo' = res.repo
          /\ log' = Append(log, GitEvent(cmd, res))
          /\ IF res.ok
             THEN /\ loc' = [loc EXCEPT !.resolved_head_ref = res.val]
                  /\ pc' = "resolve_base"
                  /\ exc' = exc
             ELSE /\ pc' = "failed"
                  /\ exc' = res.exc
                  /\ loc' = loc
  /\ UNCHANGED <<dirs, files, args, fr, repo0, fn, fn_ret>>

\* line 135: resolved_base_ref = resolve_ref(base_ref)
ResolveBase ==
  /\ pc = "resolve_base"
  /\ \E fail \in BOOLEAN :
       LET cmd == "git rev-parse --abbrev-ref " \o args.base_ref
           res == resolve_ref(args.base_ref, repo, fail)
       IN /\ repo' = res.repo
          /\ log' = Append(log, GitEvent(cmd, res))
          /\ IF res.ok
             THEN /\ loc' = [loc EXCEPT !.resolved_base_ref = res.val]
                  /\ pc' = "mkdtemp"
                  /\ exc' = exc
             ELSE /\ pc' = "failed"
                  /\ exc' = res.exc
                  /\ loc' = loc
  /\ UNCHANGED <<dirs, files, args, fr, repo0, fn, fn_ret>>

\* line 138: workdir = Path(tempfile.mkdtemp())
Mkdtemp ==
  /\ pc = "mkdtemp"
  /\ dirs' = dirs \cup {WORKDIR}
  /\ loc' = [loc EXCEPT !.workdir = WORKDIR]
  /\ pc' = "stash_size_before"
  /\ UNCHANGED <<repo, files, args, fr, exc, log, repo0, fn, fn_ret>>

\* line 142: before_stash_size = git_stash_size()
StashSizeBefore ==
  /\ pc = "stash_size_before"
  /\ \E fail \in BOOLEAN :
       LET res == git_stash_size(repo, fail)
       IN /\ repo' = res.repo
          /\ log' = Append(log, GitEvent("git stash list", res))
          /\ IF res.ok
             THEN /\ loc' = [loc EXCEPT !.before_stash_size = res.val]
                  /\ pc' = "stash"
                  /\ exc' = exc
             ELSE /\ pc' = "failed"
                  /\ exc' = res.exc
                  /\ loc' = loc
  /\ UNCHANGED <<dirs, files, args, fr, repo0, fn, fn_ret>>

\* line 143 left out: the run goes on without stashing
Stash_left_out ==
  /\ pc = "stash"
  /\ pc' = "stash_size_after"
  /\ UNCHANGED <<repo, dirs, files, args, loc, fr, exc, log, repo0, fn, fn_ret>>

\* line 143: run("git stash")
Stash ==
  /\ pc = "stash"
  /\ \E fail \in BOOLEAN :
       LET res == run("git stash", repo, fail)
       IN /\ repo' = res.repo
          /\ log' = Append(log, GitEvent("git stash", res))
          /\ IF res.ok
             THEN /\ pc' = "stash_size_after"
                  /\ exc' = exc
             ELSE /\ pc' = "failed"
                  /\ exc' = res.exc
  /\ UNCHANGED <<dirs, files, args, loc, fr, repo0, fn, fn_ret>>

\* lines 144-149: should_apply_stash = before_stash_size != git_stash_size(),
\* then the try statement is entered with the call for the head revision
StashSizeAfter ==
  /\ pc = "stash_size_after"
  /\ \E fail \in BOOLEAN :
       LET res == git_stash_size(repo, fail)
       IN /\ repo' = res.repo
          /\ log' = Append(log, GitEvent("git stash list", res))
          /\ IF res.ok
             THEN /\ loc' = [loc EXCEPT !.should_apply_stash = (loc.before_stash_size # res.val)]
                  /\ fr' = [NoFrame EXCEPT !.which = "head", !.ref = loc.resolved_head_ref]
                  /\ pc' = "pre"
                  /\ exc' = exc
             ELSE /\ pc' = "failed"
                  /\ exc' = res.exc
                  /\ loc' = loc
                  /\ fr' = fr
  /\ UNCHANGED <<dirs, files, args, repo0, fn, fn_ret>>

(***************************************************************************)
(* _checkout_transpile_schemas(ref, output), called for "head" and then    *)
(* for "base" with output = workdir.  An exception raised before its try   *)
(* statement leaves the call and reaches the caller's finally block.       *)
(***************************************************************************)

\* the failure of the second precondition
DirtyTreeError == "AssertionError(current git state must be clean)"

\* lines 99-102: the preconditions
InnerPre ==
  /\ pc = "pre"
  /\ \E fail \in BOOLEAN :
       LET res == run("git diff", repo, fail)
       IN /\ repo' = res.repo
          /\ IF loc.workdir \notin dirs
             THEN /\ exc' = "AssertionError(output must be a directory)"
                  /\ pc' = "cleanup_checkout"
                  /\ fr' = NoFrame
                  /\ log' = log
             ELSE /\ log' = Append(log, GitEvent("git diff", res))
                  /\ IF ~res.ok
                     THEN exc' = res.exc /\ pc' = "cleanup_checkout" /\ fr' = NoFrame
                     ELSE IF Len(res.val) # 0
                     THEN /\ exc' = DirtyTreeError
                          /\ pc' = "cleanup_checkout"
                          /\ fr' = NoFrame
                     ELSE exc' = exc /\ pc' = "original_ref" /\ fr' = fr
  /\ UNCHANGED <<dirs, files, args, loc, repo0, fn, fn_ret>>

\* line 105: original_ref = run("git rev-parse --abbrev-ref HEAD")
InnerOriginalRef ==
  /\ pc = "original_ref"
  /\ \E fail \in BOOLEAN :
       LET cmd == "git rev-parse --abbrev-ref HEAD"
           res == run(cmd, repo, fail)
       IN /\ repo' = res.repo
          /\ log' = Append(log, GitEvent(cmd, res))
          /\ IF res.ok
             THEN exc' = exc /\ pc' = "rev" /\ fr' = [fr EXCEPT !.original_ref = res.val]
             ELSE exc' = res.exc /\ pc' = "cleanup_checkout" /\ fr' = NoFrame
  /\ UNCHANGED <<dirs, files, args, loc, repo0, fn, fn_ret>>

\* lines 106-107: rev = run(f"git rev-parse {ref}")
InnerRev ==
  /\ pc = "rev"
  /\ \E fail \in BOOLEAN :
       LET cmd == "git rev-parse " \o fr.ref
           res == run(cmd, repo, fail)
       IN /\ repo' = res.repo
          /\ log' = Append(log, GitEvent(cmd, res))
          /\ IF res.ok
             THEN exc' = exc /\ pc' = "mkdir" /\ fr' = [fr EXCEPT !.rev = res.val]
             ELSE exc' = res.exc /\ pc' = "cleanup_checkout" /\ fr' = NoFrame
  /\ UNCHANGED <<dirs, files, args, loc, repo0, fn, fn_ret>>

\* rev[:short_rev_len]
ShortRev(rev) == SubSeq(rev, 1, IF Len(rev) < short_rev_len THEN Len(rev) ELSE short_rev_len)

\* lines 110-112 with rev_path.mkdir(exist_ok=True)
InnerMkdir_exist_ok ==
  /\ pc = "mkdir"
  /\ LET rev_path == PathJoin(loc.workdir, ShortRev(fr.rev))
     IN /\ exc' = exc
        /\ pc' = "checkout"
        /\ fr' = [fr EXCEPT !.rev_path = rev_path]
        /\ dirs' = dirs \cup {rev_path}
        /\ log' = Append(log, Event("mkdir " \o rev_path, TRUE, "ok", repo))
  /\ UNCHANGED <<repo, files, args, loc, repo0, fn, fn_ret>>

\* lines 110-112: rev_path = output / rev[:short_rev_len]; rev_path.mkdir()
InnerMkdir ==
  /\ pc = "mkdir"
  /\ LET rev_path == PathJoin(loc.workdir, ShortRev(fr.rev))
     IN IF rev_path \in dirs
        THEN /\ exc' = "FileExistsError"
             /\ pc' = "cleanup_checkout"
             /\ fr' = NoFrame
             /\ dirs' = dirs
             /\ log' = Append(log, Event("mkdir " \o rev_path, FALSE, "ok", repo))
        ELSE /\ exc' = exc
             /\ pc' = "checkout"
             /\ fr' = [fr EXCEPT !.rev_path = rev_path]
             /\ dirs' = dirs \cup {rev_path}
             /\ log' = Append(log, Event("mkdir " \o rev_path, TRUE, "ok", repo))
  /\ UNCHANGED <<repo, files, args, loc, repo0, fn, fn_ret>>

\* line 116, inside try: run(f"git checkout {ref}")
InnerCheckout ==
  /\ pc = "checkout"
  /\ \E fail \in BOOLEAN :
       LET cmd == "git checkout " \o fr.ref
           res == run(cmd, repo, fail)
       IN /\ repo' = res.repo
          /\ log' = Append(log, GitEvent(cmd, res))
          /\ IF res.ok
             THEN pc' = "transpile" /\ fr' = fr
             ELSE pc' = "finally" /\ fr' = [fr EXCEPT !.pending = res.exc]
  /\ UNCHANGED <<dirs, files, args, loc, exc, repo0, fn, fn_ret>>

\* what the transpiler did, as the log records it
ToolEnv(mode) == IF mode = "json" THEN "ok" ELSE mode

\* lines 117-118 reading the schemas of the revision resolved at line 106
\* instead of the files of the working tree
InnerTranspile_pinned ==
  /\ pc = "transpile"
  /\ \E mode \in ToolModes :
       LET schemas == SelectSeq(repo.tree[fr.rev], LAMBDA p : EndsWith(p[Len(p)], ".schema.json"))
           res == transpile_schemas(fr.rev_path, schemas, dirs, files, repo, mode)
       IN /\ files' = res.files
          /\ fr' = [fr EXCEPT !.pending = res.exc]
          /\ log' = Append(log, [Event("transpile_schemas", res.exc = "", ToolEnv(mode), repo)
                                   EXCEPT !.rev = fr.rev])
  /\ pc' = "finally"
  /\ UNCHANGED <<repo, dirs, args, loc, exc, repo0, fn, fn_ret>>

\* lines 117-118, inside try: transpile_schemas(rev_path, schemas)
InnerTranspile ==
  /\ pc = "transpile"
  /\ \E mode \in ToolModes :
       LET res == transpile_schemas(fr.rev_path, GlobSchemas(repo), dirs, files, repo, mode)
       IN /\ files' = res.files
          /\ fr' = [fr EXCEPT !.pending = res.exc]
          /\ log' = Append(log, Event("transpile_schemas", res.exc = "", ToolEnv(mode), repo))
  /\ pc' = "finally"
  /\ UNCHANGED <<repo, dirs, args, loc, exc, repo0, fn, fn_ret>>

\* lines 119-124: except re-raises, and finally returns the output of
\* run(f"git checkout {original_ref}"): a return in a finally block discards
\* the exception in flight; the call raises only when this run raises.
\* Then lines 149-150: the caller binds the value and goes on.
InnerFinally ==
  /\ pc = "finally"
  /\ \E fail \in BOOLEAN :
       LET cmd == "git checkout " \o fr.original_ref
           res == run(cmd, repo, fail)
           ret == [type |-> res.type, val |-> res.val]
       IN /\ repo' = res.repo
          /\ log' = Append(log, GitEvent(cmd, res))
          /\ IF ~res.ok
             THEN exc' = res.exc /\ pc' = "cleanup_checkout" /\ fr' = NoFrame /\ loc' = loc
             ELSE IF fr.which = "head"
             THEN /\ exc' = exc
                  /\ loc' = [loc EXCEPT !.head_rev_path = ret]
                  /\ fr' = [NoFrame EXCEPT !.which = "base", !.ref = loc.resolved_base_ref]
                  /\ pc' = "pre"
             ELSE /\ exc' = exc
                  /\ loc' = [loc EXCEPT !.base_rev_path = ret]
                  /\ fr' = NoFrame
                  /\ pc' = "cleanup_checkout"
  /\ UNCHANGED <<dirs, files, args, repo0, fn, fn_ret>>

(***************************************************************************)
(* The finally block of checkout_transpile_schemas and what follows it.    *)
(***************************************************************************)

\* line 155: run(f"git checkout {head_ref}")
CleanupCheckout ==
  /\ pc = "cleanup_checkout"
  /\ \E fail \in BOOLEAN :
       LET cmd == "git checkout " \o args.head_ref
           res == run(cmd, repo, fail)
       IN /\ repo' = res.repo
          /\ log' = Append(log, GitEvent(cmd, res))
          /\ IF res.ok
             THEN pc' = "cleanup_apply" /\ exc' = exc
             ELSE pc' = "failed" /\ exc' = res.exc
  /\ UNCHANGED <<dirs, files, args, loc, fr, repo0, fn, fn_ret>>

\* lines 156-157: if should_apply_stash: run("git stash apply"); the
\* exception in flight, if any, is raised again when the block ends
CleanupApply ==
  /\ pc = "cleanup_apply"
  /\ \E fail \in BOOLEAN :
       LET res == run("git stash apply", repo, fail)
       IN IF loc.should_apply_stash
          THEN /\ repo' = res.repo
               /\ log' = Append(log, GitEvent("git stash apply", res))
               /\ IF ~res.ok THEN pc' = "failed" /\ exc' = res.exc
                  ELSE IF exc # "" THEN pc' = "failed" /\ exc' = exc
                  ELSE pc' = "load" /\ exc' = exc
          ELSE /\ repo' = repo
               /\ log' = log
               /\ exc' = exc
               /\ pc' = IF exc # "" THEN "failed" ELSE "load"
  /\ UNCHANGED <<dirs, files, args, loc, fr, repo0, fn, fn_ret>>

\* shutil.rmtree(outdir)
rmtree(ds, fs, dir) ==
  [dirs  |-> {d \in ds : ~(d = dir \/ (Len(d) > Len(dir) /\ SubSeq(d, 1, Len(dir) + 1) = dir \o "/"))},
   files |-> {f \in fs : ~(f.dir = dir \/ (Len(f.dir) > Len(dir) /\ SubSeq(f.dir, 1, Len(dir) + 1) = dir \o "/"))}]

\* shutil.copytree(src, dst)
copytree(ds, fs, src, dst) ==
  LET Under(d) == d = src \/ (Len(d) > Len(src) /\ SubSeq(d, 1, Len(src) + 1) = src \o "/")
      Moved(d) == dst \o SubSeq(d, Len(src) + 1, Len(d))
  IN [dirs  |-> ds \cup {Moved(d) : d \in {x \in ds : Under(x)}},
      files |-> fs \cup {[f EXCEPT !.dir = Moved(f.dir)] : f \in {x \in fs : Under(x.dir)}}]

\* lines 160-163 with shutil.rmtree(outdir) moved before the two loads
LoadAndCopy_remove_first ==
  /\ pc = "load"
  /\ LET head_schemas == load_schemas(loc.head_rev_path, files)
         base_schemas == load_schemas(loc.base_rev_path, files)
         removed      == rmtree(dirs, files, args.outdir)
         copied       == copytree(removed.dirs, removed.files, loc.workdir, args.outdir)
     IN IF ~head_schemas.ok
        THEN /\ pc' = "failed" /\ exc' = head_schemas.exc
             /\ log' = Append(log, Event("load_schemas", FALSE, "ok", repo))
             /\ dirs' = removed.dirs
             /\ files' = removed.files
        ELSE IF ~base_schemas.ok
        THEN /\ pc' = "failed" /\ exc' = base_schemas.exc
             /\ log' = log \o <<Event("load_schemas", TRUE, "ok", repo), Event("load_schemas", FALSE, "ok", repo)>>
             /\ dirs' = removed.dirs
             /\ files' = removed.files
        ELSE /\ pc' = "done" /\ exc' = exc
             /\ log' = log \o <<Event("load_schemas", TRUE, "ok", repo), Event("load_schemas", TRUE, "ok", repo),
                                Event("copytree", TRUE, "ok", repo)>>
             /\ dirs' = copied.dirs
             /\ files' = copied.files
  /\ UNCHANGED <<repo, args, loc, fr, repo0, fn, fn_ret>>

\* lines 160-163: load both schema sets, then replace outdir
LoadAndCopy ==
  /\ pc = "load"
  /\ LET head_schemas == load_schemas(loc.head_rev_path, files)
         base_schemas == load_schemas(loc.base_rev_path, files)
         removed      == rmtree(dirs, files, args.outdir)
         copied       == copytree(removed.dirs, removed.files, loc.workdir, args.outdir)
     IN IF ~head_schemas.ok
        THEN /\ pc' = "failed" /\ exc' = head_schemas.exc
             /\ log' = Append(log, Event("load_schemas", FALSE, "ok", repo))
             /\ UNCHANGED <<dirs, files>>
        ELSE IF ~base_schemas.ok
        THEN /\ pc' = "failed" /\ exc' = base_schemas.exc
             /\ log' = log \o <<Event("load_schemas", TRUE, "ok", repo), Event("load_schemas", FALSE, "ok", repo)>>
             /\ UNCHANGED <<dirs, files>>
        ELSE /\ pc' = "done" /\ exc' = exc
             /\ log' = log \o <<Event("load_schemas", TRUE, "ok", repo), Event("load_schemas", TRUE, "ok", repo),
                                Event("copytree", TRUE, "ok", repo)>>
             /\ dirs' = copied.dirs
             /\ files' = copied.files
  /\ UNCHANGED <<repo, args, loc, fr, repo0, fn, fn_ret>>

Next ==
  \/ ResolveHead \/ ResolveBase \/ Mkdtemp \/ StashSizeBefore \/ Stash
  \/ StashSizeAfter \/ InnerPre \/ InnerOriginalRef \/ InnerRev \/ InnerMkdir
  \/ InnerCheckout \/ InnerTranspile \/ InnerFinally \/ CleanupCheckout
  \/ CleanupApply \/ LoadAndCopy

Spec == Init /\ [][Next]_vars

Terminated == pc \in {"done", "failed"}

(***************************************************************************)
(* A run sharing the working tree with another process.  The program takes *)
(* no lock (lines 104-122, 142-157): between any two commands of the run   *)
(* another process, a second run or a user, may execute git checkout.      *)
(***************************************************************************)

\* number of checkouts by the other process in one behaviour
MaxExternal == 1

ExternalCount == Cardinality({i \in DOMAIN log : log[i].step = "external"})

\* the other process runs git checkout <branch>, for a branch that is not
\* the current one, in the same working tree
ExternalCheckout ==
  /\ pc \notin {"done", "failed", "fn_call", "fn_done"}
  /\ ExternalCount < MaxExternal
  /\ \E b \in Branches \ {repo.HEAD} :
       LET cmd == "git checkout " \o b
           res == run(cmd, repo, FALSE)
       IN /\ repo' = res.repo
          /\ log' = Append(log, [cmd |-> cmd, ok |-> res.ok, env |-> "ok", step |-> "external",
                                 which |-> "external", rev |-> CurrentRev(res.repo)])
  /\ UNCHANGED <<dirs, files, pc, args, loc, fr, exc, repo0, fn, fn_ret>>

\* the runs started from a clean tree and an empty stash list, in a
\* repository whose two branches are on different commits with different
\* schema files
InitC ==
  /\ Init
  /\ ~repo.dirty
  /\ repo.stash = << >>
  /\ repo.refs = [master |-> "aaaaaaa1", topic |-> "bbbbbbb1"]
  /\ repo.tree = [rev \in Revs |-> IF rev = "aaaaaaa1" THEN <<P_ok>> ELSE <<P_pioneer>>]

NextC == Next \/ ExternalCheckout

SpecC == InitC /\ [][NextC]_vars

TypeOK == pc \in {"resolve_head", "resolve_base", "mkdtemp", "stash_size_before", "stash",
                  "stash_size_after", "pre", "original_ref", "rev", "mkdir", "checkout",
                  "transpile", "finally", "cleanup_checkout", "cleanup_apply", "load",
                  "done", "failed"}


(***************************************************************************)
(* Direct calls of transpile and transpile_schemas on source paths drawn   *)
(* from FnPaths, with the output directory present or missing.             *)
(***************************************************************************)

FnPaths ==
  { <<"schemas", "ns", "doc", "1.2.3.schema.json">>,
    <<"schemas", "ns", "doc", "1.2.4.schema.json">>,
    <<"schemas", "ns", "doc", "9.9.3.schema.json">>,
    <<"schemas", "ns", "doc", "doc.03.schema.json">>,
    <<"schemas", "ns", "doc", "doc.schema.json">>,
    <<"schemas", "pioneer-study", "study.1.schema.json">>,
    <<"schemas", "pioneer-study", "schema.json">>,
    <<"schemas", "x.1.schema.json">> }

PathLists == UNION {[1..n -> FnPaths] : n \in 0..MaxPaths}

\* files a directory handed to load_schemas may hold: two complete schema
\* files, an empty one, a file of another kind, and a schema file one level down
FnFiles ==
  { [dir |-> "out", name |-> "a.b.1.bq", content |-> "[]\n", src |-> << >>],
    [dir |-> "out", name |-> "c.d.2.bq", content |-> "[\n  {}\n]\n", src |-> << >>],
    [dir |-> "out", name |-> "e.f.3.bq", content |-> "", src |-> << >>],
    [dir |-> "out", name |-> "notes.txt", content |-> "[]\n", src |-> << >>],
    [dir |-> "out/sub", name |-> "g.h.4.bq", content |-> "[]\n", src |-> << >>] }

\* references handed to resolve_ref: symbolic names, branches, revision
\* hashes, the empty string and a name the repository does not know
FnRefs == RefArgs \cup Revs \cup {"", "nosuch"}

\* repositories resolve_ref is called on
FnRepos ==
  { [HEAD |-> h, dirty |-> d, stash |-> << >>,
     refs |-> [master |-> "aaaaaaa1", topic |-> "bbbbbbb1"],
     tree |-> [rev \in Revs |-> << >>]] :
      h \in Branches \cup Revs, d \in BOOLEAN }

FnCalls ==
  {[NoCall EXCEPT !.name = "transpile_schemas", !.paths = ps, !.dir = d, !.mode = m] :
      ps \in PathLists, d \in {"out", "missing"}, m \in ToolModes}
  \cup {[NoCall EXCEPT !.name = "transpile", !.paths = <<p>>, !.mode = m] :
      p \in FnPaths, m \in ToolModes}
  \cup {[NoCall EXCEPT !.name = "load_schemas", !.dir = d, !.fs = fs] :
      d \in {"out", "missing"}, fs \in SUBSET FnFiles}
  \cup {[NoCall EXCEPT !.name = "resolve_ref", !.ref = ref] : ref \in FnRefs}

InitFn ==
  /\ fn \in FnCalls
  /\ fn_ret = NoRet
  /\ pc = "fn_call"
  /\ dirs = {"out", "out/sub"}
  /\ files = fn.fs
  /\ repo \in IF fn.name = "resolve_ref" THEN FnRepos
              ELSE {[HEAD |-> "master", dirty |-> FALSE, stash |-> << >>,
                     refs |-> [master |-> "aaaaaaa1", topic |-> "bbbbbbb1"],
                     tree |-> [rev \in Revs |-> << >>]]}
  /\ repo0 = repo
  /\ args = [head_ref |-> "HEAD", base_ref |-> "master", outdir |-> OUTDIR]
  /\ loc = [resolved_head_ref |-> "", resolved_base_ref |-> "", workdir |-> "",
            before_stash_size |-> 0, should_apply_stash |-> FALSE,
            head_rev_path |-> None, base_rev_path |-> None]
  /\ fr = NoFrame
  /\ exc = ""
  /\ log = << >>

\* transpile(schema_path)
CallTranspile ==
  /\ pc = "fn_call"
  /\ fn.name = "transpile"
  /\ LET res == transpile(fn.paths[1], repo, fn.mode)
     IN fn_ret' = [NoRet EXCEPT !.returned = res.ok, !.exc = res.exc, !.val = res.val]
  /\ pc' = "fn_done"
  /\ UNCHANGED <<repo, dirs, files, args, loc, fr, exc, log, repo0, fn>>

\* transpile_schemas(output_path, schema_paths)
CallTranspileSchemas ==
  /\ pc = "fn_call"
  /\ fn.name = "transpile_schemas"
  /\ LET res == transpile_schemas(fn.dir, fn.paths, dirs, files, repo, fn.mode)
     IN /\ files' = res.files
        /\ fn_ret' = [NoRet EXCEPT !.returned = (res.exc = ""), !.exc = res.exc]
  /\ pc' = "fn_done"
  /\ UNCHANGED <<repo, dirs, args, loc, fr, exc, log, repo0, fn>>

\* load_schemas(input_path) on a directory path
CallLoadSchemas ==
  /\ pc = "fn_call"
  /\ fn.name = "load_schemas"
  /\ LET res == load_schemas([type |-> "Path", val |-> fn.dir], files)
     IN fn_ret' = [NoRet EXCEPT !.returned = res.ok, !.exc = res.exc, !.map = res.val]
  /\ pc' = "fn_done"
  /\ UNCHANGED <<repo, dirs, files, args, loc, fr, exc, log, repo0, fn>>

\* resolve_ref(ref), and resolve_ref of what it returned
CallResolveRef ==
  /\ pc = "fn_call"
  /\ fn.name = "resolve_ref"
  /\ \E fail \in BOOLEAN :
       LET first  == resolve_ref(fn.ref, repo, fail)
           second == resolve_ref(first.val, first.repo, FALSE)
       IN IF first.ok
          THEN /\ fn_ret' = [NoRet EXCEPT !.returned = TRUE, !.str = first.val,
                                          !.again = [ok |-> second.ok, val |-> second.val]]
               /\ repo' = second.repo
          ELSE /\ fn_ret' = [NoRet EXCEPT !.exc = first.exc]
               /\ repo' = first.repo
  /\ pc' = "fn_done"
  /\ UNCHANGED <<dirs, files, args, loc, fr, exc, log, repo0, fn>>

NextFn == CallTranspile \/ CallTranspileSchemas \/ CallLoadSchemas \/ CallResolveRef

SpecFn == InitFn /\ [][NextFn]_vars


(***************************************************************************)
(* Properties.                                                             *)
(***************************************************************************)

\* every external command of the run so far exited with status zero, and the
\* transpiler printed a JSON document
EnvOk == \A i \in DOMAIN log : log[i].env = "ok"

\* the git stash of this run added an entry to the stash list
StashCreated == Len(repo.stash) > Len(repo0.stash)

\* number of git stash apply commands executed
ApplyCount == Cardinality({i \in DOMAIN log : log[i].cmd = "git stash apply"})

IsCheckout(e) == e.step \in {"checkout", "finally", "cleanup_checkout"}

StashedBefore(i) == \E j \in 1..(i - 1) : log[j].cmd = "git stash" /\ log[j].ok

\* an exception was raised inside the try statement of the call for w
TryFailed(w) ==
  \E i \in DOMAIN log :
    log[i].which = w /\ log[i].step \in {"checkout", "transpile"} /\ ~log[i].ok

RestoringRan == \E i \in DOMAIN log : log[i].step = "cleanup_checkout"

\* C1: when a run of checkout_transpile_schemas has terminated, normally or
\* by raising, the repository's current reference is the one that was
\* current before the run began
C1_RestorationInvariant == Terminated => repo.HEAD = repo0.HEAD

\* C2 (as claimed): a run started with a dirty working tree executes no git
\* stash and no git checkout, and when no external command fails it ends with
\* the dirty-tree error, the current reference and the stash list unchanged
C2_DirtyTreeFailsFirst ==
  repo0.dirty =>
    /\ \A i \in DOMAIN log : ~(log[i].ok /\ (log[i].cmd = "git stash" \/ IsCheckout(log[i])))
    /\ (Terminated /\ EnvOk) =>
         (exc = DirtyTreeError /\ repo.HEAD = repo0.HEAD /\ repo.stash = repo0.stash)

\* C2 (amended): in a run started with a dirty working tree, git stash runs
\* before the dirty-tree check and before every git checkout; each checkout
\* of a revision comes after a dirty-tree check that passed; once the check
\* has run the stash list is one entry longer than before the run; and the
\* run never fails with the dirty-tree error
C2_StashThenCheck ==
  repo0.dirty =>
    /\ exc # DirtyTreeError
    /\ \A i \in DOMAIN log : (log[i].cmd = "git diff" \/ IsCheckout(log[i])) => StashedBefore(i)
    /\ \A i \in DOMAIN log :
         log[i].step = "checkout" =>
           \E j \in 1..(i - 1) :
             log[j].cmd = "git diff" /\ log[j].ok /\ log[j].which = log[i].which
    /\ (\E i \in DOMAIN log : log[i].cmd = "git diff") =>
         (Len(repo.stash) = Len(repo0.stash) + 1 /\ repo.stash[1] = "run")

\* a run started dirty whose first dirty-tree check has passed
C2_Witness ==
  /\ repo0.dirty
  /\ pc = "original_ref"
  /\ fr.which = "head"
  /\ log[Len(log)].cmd = "git diff"
  /\ log[Len(log)].ok

\* C3: when the run has terminated, exactly one git stash apply was executed
\* if its git stash created a stash entry, and none if it created no entry
C3_ExactlyOneApply ==
  Terminated => ApplyCount = (IF StashCreated THEN 1 ELSE 0)

\* C4: an exception raised by git checkout <ref> or by transpile_schemas
\* inside _checkout_transpile_schemas reaches the caller after cleanup: after
\* such a failure on the head revision the base revision is neither checked
\* out nor transpiled, no schema set is loaded after such a failure, and the
\* run ends in Failed with the cleanup done
C4_ExceptionPropagates ==
  /\ TryFailed("head") =>
       \A i \in DOMAIN log :
         ~(log[i].which = "base" /\ log[i].step \in {"checkout", "transpile"})
  /\ (TryFailed("head") \/ TryFailed("base")) =>
       \A i \in DOMAIN log : log[i].cmd # "load_schemas"
  /\ (Terminated /\ (TryFailed("head") \/ TryFailed("base"))) =>
       (pc = "failed" /\ RestoringRan)

\* C5: a run that fails after its git stash has created a stash entry has
\* executed the restoration actions before the error reaches the caller: the
\* checkout of the finally block and git stash apply
C5_FailureAfterMutationRestores ==
  (pc = "failed" /\ StashCreated) => (RestoringRan /\ ApplyCount >= 1)

\* some file of the revision is a schema source outside the reserved namespace
HasSchema(r, rev) ==
  \E i \in DOMAIN r.tree[rev] :
    LET p == r.tree[rev][i]
    IN EndsWith(p[Len(p)], ".schema.json") /\ Len(p) >= 3 /\ Last3(p)[1] # "schemas"

\* C6: when every external command succeeds, the tree is clean, head and base
\* are different revisions and each has a schema file outside the reserved
\* namespace, the run ends in Done with both work directory paths (temporary
\* root / short revision) bound and outdir replaced by the temporary root
C6_SuccessfulRunIsDone ==
  LET head_rev == RevOf(repo0, args.head_ref)
      base_rev == RevOf(repo0, args.base_ref)
  IN (/\ Terminated
      /\ EnvOk
      /\ ~repo0.dirty
      /\ ShortRev(head_rev) # ShortRev(base_rev)
      /\ HasSchema(repo0, head_rev)
      /\ HasSchema(repo0, base_rev))
     => /\ pc = "done"
        /\ loc.head_rev_path = [type |-> "Path", val |-> PathJoin(WORKDIR, ShortRev(head_rev))]
        /\ loc.base_rev_path = [type |-> "Path", val |-> PathJoin(WORKDIR, ShortRev(base_rev))]
        /\ PathJoin(OUTDIR, ShortRev(head_rev)) \in dirs
        /\ PathJoin(OUTDIR, ShortRev(base_rev)) \in dirs

\* C7: transpile(path) returns the parsed document whenever the transpiler
\* exits with status zero and prints a JSON document, and raises only when
\* the command fails or its output does not parse
C7_TranspileReturnsDocument ==
  (pc = "fn_done" /\ fn.name = "transpile") =>
    /\ fn.mode = "json" => (fn_ret.returned /\ fn_ret.val = [kind |-> "list", n |-> 0])
    /\ ~fn_ret.returned => fn.mode \in {"fail", "garbage"}

\* C8: the events of a run are in the order of the state machine: git stash
\* precedes every git checkout; the base revision is checked out only after
\* the head revision was checked out and transpiled; no schema set is loaded
\* before the restoration actions; outdir is replaced last; and a run that
\* fails after Stashing has executed the Restoring actions
C8_EventOrder ==
  /\ \A i \in DOMAIN log : IsCheckout(log[i]) => StashedBefore(i)
  /\ \A i \in DOMAIN log :
       (log[i].which = "base" /\ log[i].step = "checkout") =>
         \E j \in 1..(i - 1), k \in 1..(i - 1) :
           /\ j < k
           /\ log[j].which = "head" /\ log[j].step = "checkout" /\ log[j].ok
           /\ log[k].which = "head" /\ log[k].cmd = "transpile_schemas" /\ log[k].ok
  /\ \A i \in DOMAIN log :
       log[i].cmd = "load_schemas" => \E j \in 1..(i - 1) : log[j].step = "cleanup_checkout"
  /\ \A i \in DOMAIN log : log[i].cmd = "copytree" => i = Len(log)
  /\ (pc = "failed" /\ \E i \in DOMAIN log : log[i].cmd = "git stash" /\ log[i].ok)
       => RestoringRan

\* C9: no file in the file system was opened by transpile_schemas for a
\* source path whose namespace (third-from-last part) is 'schemas'
C9_NoFileForReservedNamespace ==
  \A f \in files : Len(f.src) >= 3 => f.src[Len(f.src) - 2] # "schemas"

\* transpile_schemas was called on a list with a path of the reserved
\* namespace, went past it, and opened a file for a later path
C9_Witness ==
  /\ pc = "fn_done"
  /\ fn.name = "transpile_schemas"
  /\ \E i \in DOMAIN fn.paths, j \in DOMAIN fn.paths :
       /\ i < j
       /\ Len(fn.paths[i]) >= 3
       /\ fn.paths[i][Len(fn.paths[i]) - 2] = "schemas"
       /\ \E f \in files : f.dir = fn.dir /\ f.src = fn.paths[j]

\* the filename has a third-from-end dot segment that is an integer
WellFormed(p) ==
  /\ Len(p) >= 3
  /\ Len(Split(p[Len(p)], ".")) >= 3
  /\ ParseInt(Split(p[Len(p)], ".")[Len(Split(p[Len(p)], ".")) - 2]).ok

ExpectedName(p) ==
  p[Len(p) - 2] \o "." \o p[Len(p) - 1] \o "."
    \o ToString(ParseInt(Split(p[Len(p)], ".")[Len(Split(p[Len(p)], ".")) - 2]).val)
    \o ".bq"

\* C10: after a transpile_schemas call on well-formed source paths, with the
\* output directory present and the transpiler printing a JSON document,
\* every path outside the reserved namespace has its file
\* {namespace}.{doctype}.{version}.bq holding its document, and distinct
\* such paths have distinct file names
C10_EachPathItsOwnFile ==
  (/\ pc = "fn_done"
   /\ fn.name = "transpile_schemas"
   /\ fn.dir \in dirs
   /\ fn.mode = "json"
   /\ \A i \in DOMAIN fn.paths : WellFormed(fn.paths[i]))
  => LET kept == {i \in DOMAIN fn.paths : fn.paths[i][Len(fn.paths[i]) - 2] # "schemas"}
     IN /\ \A i \in kept :
             \E f \in files :
               /\ f.dir = fn.dir
               /\ f.name = ExpectedName(fn.paths[i])
               /\ json_loads(f.content).ok
        /\ \A i \in kept, j \in kept :
             fn.paths[i] # fn.paths[j] => ExpectedName(fn.paths[i]) # ExpectedName(fn.paths[j])


\* C11: load_schemas(dir) raises the empty-set error when no *.bq file lies
\* directly under dir; otherwise, its files being parsed, it returns the
\* mapping whose keys are exactly the names of those files without the .bq
\* suffix, each with the parsed content of its file; and it changes no file
C11_LoadSchemasMapping ==
  (pc = "fn_done" /\ fn.name = "load_schemas") =>
    LET here == {f \in fn.fs : /\ f.dir = fn.dir
                               /\ Len(f.name) >= 3
                               /\ SubSeq(f.name, Len(f.name) - 2, Len(f.name)) = ".bq"}
    IN /\ files = fn.fs
       /\ here = {} => (~fn_ret.returned /\ fn_ret.exc = "AssertionError")
       /\ (here # {} /\ \A f \in here : json_loads(f.content).ok) =>
            /\ fn_ret.returned
            /\ {e.key : e \in fn_ret.map} = {SubSeq(f.name, 1, Len(f.name) - 3) : f \in here}
            /\ \A e \in fn_ret.map :
                 \E f \in here : f.name = e.key \o ".bq" /\ e.doc = json_loads(f.content).val
            /\ Cardinality(fn_ret.map) = Cardinality(here)
       /\ (here # {} /\ \E f \in here : ~json_loads(f.content).ok) =>
            (~fn_ret.returned /\ fn_ret.exc = "JSONDecodeError")

\* load_schemas returned the one-entry mapping keyed "a.b.1" for a directory
\* that holds a.b.1.bq, a file of another kind and a schema file one level down
C11_Witness ==
  /\ pc = "fn_done"
  /\ fn.name = "load_schemas"
  /\ fn.dir = "out"
  /\ {f.name : f \in fn.fs} = {"a.b.1.bq", "notes.txt", "g.h.4.bq"}
  /\ fn_ret.returned
  /\ fn_ret.map = {[key |-> "a.b.1", doc |-> [kind |-> "list", n |-> 0]]}

\* C12: when resolve_ref(ref) succeeds, resolve_ref of its result succeeds
\* and gives the same result, and the repository (current reference, working
\* tree, stash list) is as before the calls
C12_ResolveRefIdempotent ==
  (pc = "fn_done" /\ fn.name = "resolve_ref") =>
    /\ repo = repo0
    /\ fn_ret.returned => (fn_ret.again.ok /\ fn_ret.again.val = fn_ret.str)

\* resolve_ref("HEAD") gave the branch name, which resolved to itself
C12_Witness ==
  /\ pc = "fn_done"
  /\ fn.name = "resolve_ref"
  /\ fn.ref = "HEAD"
  /\ fn_ret.returned
  /\ fn_ret.str = "topic"
  /\ fn_ret.again.val = "topic"


\* should_apply_stash has been computed
StashMeasured == \E i \in DOMAIN log : log[i].step = "stash_size_after" /\ log[i].ok

\* C13: should_apply_stash is true exactly when git stash added an entry to
\* the stash list, whatever the length of the list before, zero included,
\* since git_stash_size gives the number of entries of the list
C13_ApplyIffStashAdded ==
  StashMeasured =>
    /\ loc.before_stash_size = Len(repo0.stash)
    /\ loc.should_apply_stash = StashCreated

\* C14: a call of _checkout_transpile_schemas that got past its
\* preconditions and ran its restoring checkout leaves the repository on the
\* revision that was checked out when the call began, whether its checkout
\* and transpile succeeded or failed, a call begun on a detached HEAD included
C14_CallRestoresRevision ==
  \A i \in DOMAIN log :
    (log[i].step = "finally" /\ log[i].ok) =>
      \E j \in 1..(i - 1) :
        /\ log[j].step = "pre"
        /\ log[j].which = log[i].which
        /\ log[j].rev = log[i].rev

\* the part of the file system outside the temporary root
Outside(fs) ==
  {f \in fs : ~(f.dir = WORKDIR \/ (Len(f.dir) > Len(WORKDIR)
                                     /\ SubSeq(f.dir, 1, Len(WORKDIR) + 1) = WORKDIR \o "/"))}

OutsideDirs(ds) ==
  {x \in ds : ~(x = WORKDIR \/ (Len(x) > Len(WORKDIR)
                                /\ SubSeq(x, 1, Len(WORKDIR) + 1) = WORKDIR \o "/"))}

\* C16: a step that does not end the run in Done changes no file and no
\* directory outside the temporary root, so outdir is as it was after every
\* run that fails; outdir is replaced only by the step that follows the
\* restoration and loads both schema sets
C16_OutdirUntouchedOnFailure ==
  [][ /\ pc' # "done" => /\ Outside(files') = Outside(files)
                         /\ OutsideDirs(dirs') = OutsideDirs(dirs)
      /\ pc' = "done" => (pc = "load" /\ RestoringRan) ]_vars

\* a run failed at load_schemas, after writing into the temporary root, and
\* outdir still holds its old file
C16_Witness ==
  /\ pc = "failed"
  /\ \E i \in DOMAIN log : log[i].cmd = "load_schemas" /\ ~log[i].ok
  /\ \E f \in files : f \notin Outside(files)
  /\ OUTDIR \in dirs
  /\ \E f \in files : f.dir = OUTDIR /\ f.name = "old.bq" /\ f.content = "[]\n"


\* the creation of a work directory failed
MkdirFailed == \E j \in DOMAIN log : log[j].step = "mkdir" /\ ~log[j].ok

\* C17: when the second call of _checkout_transpile_schemas computes the
\* work directory of the first (same first seven characters of the hash),
\* its mkdir fails, the call checks out and transpiles nothing, the final
\* cleanup runs and the run ends with the error: the two calls never write
\* into one work directory
C17_SameShortRevFails ==
  /\ \A i \in DOMAIN log : \A j \in DOMAIN log :
       (i < j /\ log[i].step = "mkdir" /\ log[j].step = "mkdir" /\ log[i].cmd = log[j].cmd) =>
         /\ ~log[j].ok
         /\ \A k \in DOMAIN log :
              k > j => log[k].step \notin {"checkout", "transpile", "finally"}
  /\ MkdirFailed => pc \in {"cleanup_checkout", "cleanup_apply", "failed"}
  /\ (MkdirFailed /\ Terminated) =>
       /\ RestoringRan
       /\ pc = "failed"
       /\ (\A i \in DOMAIN log : log[i].step = "cleanup_checkout" => log[i].ok)
            => exc \in {"FileExistsError", "CalledProcessError"}
       /\ EnvOk => exc = "FileExistsError"

\* head and base are two branches on different commits whose hashes start
\* with the same seven characters; the run ended with FileExistsError after
\* its cleanup
C17_Witness ==
  /\ pc = "failed"
  /\ exc = "FileExistsError"
  /\ MkdirFailed
  /\ RestoringRan
  /\ args.head_ref \in Branches
  /\ args.base_ref \in Branches
  /\ repo.refs[args.head_ref] # repo.refs[args.base_ref]

\* C18: after a run that created a stash entry and applied it in its
\* cleanup, the stash list is the one from before the run
C18_StashListAsBefore ==
  (Terminated /\ \E i \in DOMAIN log : log[i].cmd = "git stash apply" /\ log[i].ok) =>
    repo.stash = repo0.stash


\* the path lies in the reserved namespace
InReserved(p) == Len(p) >= 3 /\ p[Len(p) - 2] = "schemas"

\* C15: a source path of the reserved namespace 'schemas' is skipped without
\* an exception whatever its filename, and the path that follows the skipped
\* ones gets its output file: on lists whose other paths are well formed,
\* transpile_schemas raises no IndexError or ValueError, and the first path
\* outside the namespace has a file
C15_ReservedSkippedWithoutRaising ==
  (/\ pc = "fn_done"
   /\ fn.name = "transpile_schemas"
   /\ fn.dir \in dirs
   /\ \A i \in DOMAIN fn.paths : InReserved(fn.paths[i]) \/ WellFormed(fn.paths[i]))
  => /\ fn_ret.exc \notin {"IndexError", "ValueError"}
     /\ \A j \in DOMAIN fn.paths :
          (/\ ~InReserved(fn.paths[j])
           /\ \A i \in 1..(j - 1) : InReserved(fn.paths[i]))
          => \E f \in files : f.dir = fn.dir /\ f.src = fn.paths[j]

\* C19: when transpile_schemas has returned or raised, every .bq file of the
\* output directory holds a complete document followed by a newline
C19_NoPartialOutputFile ==
  (pc = "fn_done" /\ fn.name = "transpile_schemas") =>
    \A f \in files :
      (f.dir = fn.dir /\ EndsWith(f.name, ".bq")) =>
        /\ json_loads(f.content).ok
        /\ EndsWith(f.content, "\n")


\* C20: the run takes no lock on the repository, so what it transpiles is
\* the working tree as the most recent command left it, the run's own or
\* another process's: each transpile_schemas call reads the revision current
\* after the entry before it, and it reads a revision other than the one
\* the run checked out only when a checkout of another process came between
C20_TranspileReadsSharedTree ==
  \A i \in DOMAIN log :
    log[i].step = "transpile" =>
      /\ i > 1
      /\ log[i].rev = log[i - 1].rev
      /\ \A j \in 1..(i - 1) :
           (/\ log[j].step = "checkout"
            /\ log[j].which = log[i].which
            /\ log[j].rev # log[i].rev)
           => \E k \in (j + 1)..(i - 1) : log[k].step = "external"

\* an interleaving in which the run checked out one revision and, after a
\* checkout by another process, transpiled another
C20_Witness ==
  \E i \in DOMAIN log : \E j \in 1..(i - 1) :
    /\ log[i].step = "transpile"
    /\ log[j].step = "checkout"
    /\ log[j].ok
    /\ log[j].which = log[i].which
    /\ log[j].rev # log[i].rev

====
